---- MODULE Spec2Model ----
(***************************************************************************)
(* A model of the aws_ses package: the profile resolver                    *)
(* (profile_manager.py), the SES sender (ses_client.py) and the Lambda     *)
(* entry point (lambda_handler.py) and the command line (cli.py).          *)
(*                                                                         *)
(* Python values are tagged records, so that a single string, a collection *)
(* and None stay distinct and Python's truthiness is what the code tests:  *)
(*   None            [tag |-> "none"]                                      *)
(*   "a@x.com"       [tag |-> "str",  s |-> "a@x.com"]                     *)
(*   ["a@x.com"]     [tag |-> "list", l |-> <<"a@x.com">>]                 *)
(* A dict is a function from its keys to values; a key the code never sets *)
(* is not in its DOMAIN.                                                   *)
(***************************************************************************)
EXTENDS Integers, Sequences, FiniteSets, TLC

VARIABLES
    profiles,   \* the Profile Set: boto3.Session().available_profiles, in order
    environ,    \* os.environ, the keys AWS_PROFILE and AWS_REGION
    arg,        \* the arguments the caller passes in this behaviour
    sender,     \* the SESClient instance: profile_name, region_name, session, client
    op,         \* the operation that ran last ("none" before the first)
    ret,        \* how it ended: a returned value or a raised error
    queries,    \* how many times it enumerated the Profile Set
    trace,      \* what it did, in order: Sender constructions, remote calls, printed lines
    ctx         \* the obj of the click context: what the group callback leaves the subcommand

vars == <<profiles, environ, arg, sender, op, ret, queries, trace, ctx>>

(***************************************************************************)
(* Python values                                                           *)
(***************************************************************************)
None == [tag |-> "none"]
Str(s) == [tag |-> "str", s |-> s]
List(l) == [tag |-> "list", l |-> l]

\* isinstance(v, str)
isinstance_str(v) == v.tag = "str"

\* bool(v): None, "" and [] are falsy, every other value modelled here is truthy
bool(v) ==
    CASE v.tag = "none" -> FALSE
      [] v.tag = "str"  -> v.s # ""
      [] v.tag = "list" -> v.l # <<>>
      [] OTHER          -> TRUE

\* str.lower() on the names the model passes around
lower(s) ==
    CASE s = "LATEST" -> "latest"
      [] s = "Latest" -> "latest"
      [] s = "DEV"    -> "dev"
      [] OTHER        -> s

Return(v) == [kind |-> "return", value |-> v]
Raise(e) == [kind |-> "raise", error |-> e]

(***************************************************************************)
(* Bounds and input domains                                                *)
(***************************************************************************)
MaxProfiles == 2

\* the names a credential store may hold; the store keeps them unique and
\* non-empty (a section header of the AWS configuration)
ProfileNames == {"dev", "prod", "latest"}

RECURSIVE SeqsUpTo(_, _)
SeqsUpTo(S, n) ==
    IF n = 0 THEN {<<>>}
    ELSE LET shorter == SeqsUpTo(S, n - 1)
         IN  shorter \cup {Append(q, x) : q \in {r \in shorter : Len(r) = n - 1}, x \in S}

Range(q) == {q[i] : i \in 1..Len(q)}
NoDuplicates(q) == Cardinality(Range(q)) = Len(q)

ProfileSets == {q \in SeqsUpTo(ProfileNames, MaxProfiles) : NoDuplicates(q)}

\* what a caller may pass as a profile name
ProfileArgs ==
    {None} \cup {Str(s) : s \in {"", "latest", "LATEST", "Latest", "dev", "DEV", "custom"}}

NoSender == [state |-> "none"]

\* cli(obj={}): the obj of the click context before the group callback ran
EmptyObj == [k \in {} |-> [tag |-> "none"]]

(***************************************************************************)
(* profile_manager.py                                                      *)
(***************************************************************************)
\* ProfileManager.get_available_profiles: one enumeration of the Profile Set
get_available_profiles(ps) == List(ps)

\* a get_latest_profile that takes the first name instead of the last
get_latest_profile_first(ps) ==
    LET available == get_available_profiles(ps)
    IN  IF ~bool(available) THEN None ELSE Str(available.l[1])

\* ProfileManager.get_latest_profile: the last name, or None
get_latest_profile(ps) ==
    LET available == get_available_profiles(ps)
    IN  IF ~bool(available) THEN None ELSE Str(available.l[Len(available.l)])

\* a resolve_profile_name that looks every given name up in the Profile Set
resolve_profile_name_checked(profile_name, ps) ==
    IF ~bool(profile_name)
    THEN [out |-> Return(None), queries |-> 0]
    ELSE IF lower(profile_name.s) = "latest"
    THEN LET latest_profile == get_latest_profile(ps)
         IN  IF ~bool(latest_profile)
             THEN [out |-> Raise([type |-> "ValueError",
                                  msg |-> "No AWS profiles found when trying to use 'latest'"]),
                   queries |-> 1]
             ELSE [out |-> Return(latest_profile), queries |-> 1]
    ELSE IF profile_name.s \in Range(get_available_profiles(ps).l)
    THEN [out |-> Return(profile_name), queries |-> 1]
    ELSE [out |-> Return(None), queries |-> 1]

\* ProfileManager.resolve_profile_name: the outcome and the number of
\* enumerations of the Profile Set it made
resolve_profile_name(profile_name, ps) ==
    IF ~bool(profile_name)
    THEN [out |-> Return(None), queries |-> 0]
    ELSE IF lower(profile_name.s) = "latest"
    THEN LET latest_profile == get_latest_profile(ps)
         IN  IF ~bool(latest_profile)
             THEN [out |-> Raise([type |-> "ValueError",
                                  msg |-> "No AWS profiles found when trying to use 'latest'"]),
                   queries |-> 1]
             ELSE [out |-> Return(latest_profile), queries |-> 1]
    ELSE [out |-> Return(profile_name), queries |-> 0]

\* boto3.Session(profile_name=...): the credential store binds a name it
\* holds and reports ProfileNotFound for any other; no name binds the default
boto3_Session(profile_name, ps) ==
    IF profile_name = None
    THEN Return([profile |-> None])
    ELSE IF profile_name.s \in Range(ps)
    THEN Return([profile |-> profile_name])
    ELSE Raise([type |-> "ProfileNotFound", msg |-> profile_name.s])

\* what else may go wrong when a name is bound: nothing, or an error of the
\* credential system that is not ProfileNotFound
BindFaults == {"none", "InvalidConfigError"}

\* line 56: boto3.Session(profile_name=profile_name), with such an error or without
bind_profile(profile_name, ps, fault) ==
    IF fault # "none"
    THEN Raise([type |-> fault, msg |-> profile_name.s])
    ELSE boto3_Session(profile_name, ps)

Bound(profile_name, out) == [ev |-> "bind", profile_name |-> profile_name, out |-> out]

\* a validate_profile that binds the sentinel like any other name
validate_profile_no_sentinel(profile_name, ps, fault) ==
    LET b == bind_profile(profile_name, ps, fault)
    IN  [out |-> IF b.kind = "return" THEN Return(TRUE)
                 ELSE IF b.error.type = "ProfileNotFound" THEN Return(FALSE)
                 ELSE b,
         queries |-> 0,
         trace |-> <<Bound(profile_name, b)>>]

\* a validate_profile that answers False to every binding error
validate_profile_catch_all(profile_name, ps, fault) ==
    IF lower(profile_name.s) = "latest"
    THEN [out |-> Return(bool(get_available_profiles(ps))), queries |-> 1, trace |-> <<>>]
    ELSE LET b == bind_profile(profile_name, ps, fault)
         IN  [out |-> IF b.kind = "return" THEN Return(TRUE) ELSE Return(FALSE),
              queries |-> 0,
              trace |-> <<Bound(profile_name, b)>>]

\* ProfileManager.validate_profile: the outcome, the enumerations of the
\* Profile Set and the binding it attempted
validate_profile(profile_name, ps, fault) ==
    IF lower(profile_name.s) = "latest"
    THEN [out |-> Return(bool(get_available_profiles(ps))), queries |-> 1, trace |-> <<>>]
    ELSE LET b == bind_profile(profile_name, ps, fault)
         IN  [out |-> IF b.kind = "return" THEN Return(TRUE)
                      ELSE IF b.error.type = "ProfileNotFound" THEN Return(FALSE)
                      ELSE b,
              queries |-> 0,
              trace |-> <<Bound(profile_name, b)>>]

\* a caller invokes ProfileManager.validate_profile(arg.profile_name)
ValidateProfile ==
    /\ arg.entry = "validate"
    /\ \E fault \in BindFaults :
           LET r == validate_profile(arg.profile_name, profiles, fault)
           IN  /\ op' = "validate_profile"
               /\ ret' = r.out
               /\ queries' = r.queries
               /\ trace' = r.trace
    /\ UNCHANGED <<profiles, environ, arg, sender, ctx>>

\* a caller invokes ProfileManager.resolve_profile_name(arg.profile_name)
ResolveProfileName ==
    /\ arg.entry = "profile"
    /\ LET r == resolve_profile_name(arg.profile_name, profiles)
       IN  /\ op' = "resolve_profile_name"
           /\ ret' = r.out
           /\ queries' = r.queries
    /\ trace' = <<>>
    /\ UNCHANGED <<profiles, environ, arg, sender, ctx>>

(***************************************************************************)
(* The profile resolver on its own: the Profile Set and the requested name *)
(* are drawn at the start, the operations are applied to them.             *)
(***************************************************************************)
InitProfile ==
    /\ profiles \in ProfileSets
    /\ environ = [AWS_PROFILE |-> None, AWS_REGION |-> None]
    /\ arg \in {[entry |-> "profile", profile_name |-> p] : p \in ProfileArgs}
               \cup {[entry |-> "validate", profile_name |-> p] : p \in ProfileArgs \ {None}}
    /\ sender = NoSender
    /\ op = "none"
    /\ ret = Return(None)
    /\ queries = 0
    /\ trace = <<>>
    /\ ctx = EmptyObj

NextProfile ==
    \/ ResolveProfileName
    \/ ValidateProfile

SpecProfile == InitProfile /\ [][NextProfile]_vars

\* the spellings of the sentinel a caller may use
LatestSpellings == {"latest", "LATEST", "Latest"}
IsLatest(v) == v.tag = "str" /\ v.s \in LatestSpellings

\* C1: resolve_profile_name called with "latest" in any letter case raises the
\* no-profiles error when the Profile Set is empty, and otherwise returns the
\* last element of the Profile Set.
C1_LatestResolvesToLast ==
    (op = "resolve_profile_name" /\ IsLatest(arg.profile_name)) =>
        IF profiles = <<>>
        THEN ret.kind = "raise" /\ ret.error.type = "ValueError"
        ELSE ret = Return(Str(profiles[Len(profiles)]))

C1_Witness ==
    /\ op = "resolve_profile_name"
    /\ arg.profile_name = Str("LATEST")
    /\ Len(profiles) = 2
    /\ ret = Return(Str(profiles[2]))

\* C2: resolve_profile_name returns None for an absent or empty name and
\* returns every other name that is not the sentinel unchanged, whatever the
\* Profile Set holds, and without enumerating the Profile Set.
C2_OtherNamesUnchanged ==
    (op = "resolve_profile_name" /\ ~IsLatest(arg.profile_name)) =>
        /\ queries = 0
        /\ ret = Return(IF arg.profile_name = None \/ arg.profile_name = Str("")
                        THEN None ELSE arg.profile_name)

C2_Witness ==
    /\ op = "resolve_profile_name"
    /\ arg.profile_name = Str("custom")
    /\ "custom" \notin Range(profiles)
    /\ ret = Return(Str("custom"))
    /\ queries = 0

(***************************************************************************)
(* ses_client.py: construction                                             *)
(***************************************************************************)
\* a _create_session that binds the last profile for the sentinel and leaves
\* self.profile_name as it was given
create_session_keep_sentinel(profile_name, ps) ==
    IF ~bool(profile_name)
    THEN [out |-> boto3_Session(None, ps), profile_name |-> profile_name, queries |-> 0]
    ELSE IF lower(profile_name.s) = "latest"
    THEN LET available_profiles == List(ps)
         IN  IF ~bool(available_profiles)
             THEN [out |-> Raise([type |-> "ValueError", msg |-> "No AWS profiles found"]),
                   profile_name |-> profile_name, queries |-> 1]
             ELSE LET last == Str(available_profiles.l[Len(available_profiles.l)])
                  IN  [out |-> boto3_Session(last, ps), profile_name |-> profile_name,
                       queries |-> 1]
    ELSE [out |-> boto3_Session(profile_name, ps), profile_name |-> profile_name, queries |-> 0]

\* SESClient._create_session: the session or the error, the profile_name the
\* instance holds afterwards, and the enumerations of the Profile Set made
create_session(profile_name, ps) ==
    IF ~bool(profile_name)
    THEN [out |-> boto3_Session(None, ps), profile_name |-> profile_name, queries |-> 0]
    ELSE IF lower(profile_name.s) = "latest"
    THEN LET available_profiles == List(ps)
         IN  IF ~bool(available_profiles)
             THEN [out |-> Raise([type |-> "ValueError", msg |-> "No AWS profiles found"]),
                   profile_name |-> profile_name, queries |-> 1]
             ELSE LET last == Str(available_profiles.l[Len(available_profiles.l)])
                  IN  [out |-> boto3_Session(last, ps), profile_name |-> last, queries |-> 1]
    ELSE [out |-> boto3_Session(profile_name, ps), profile_name |-> profile_name, queries |-> 0]

\* an __init__ that puts off binding: it hands out an instance whatever
\* _create_session did
SESClient_init_lazy(profile_name, region_name, ps) ==
    LET s == create_session(profile_name, ps)
        session == IF s.out.kind = "raise" THEN [profile |-> s.profile_name] ELSE s.out.value
    IN  [out |-> Return([state |-> "ready",
                         profile_name |-> s.profile_name,
                         region_name |-> region_name,
                         session |-> session,
                         client |-> [service |-> "ses",
                                     region_name |-> region_name,
                                     session |-> session]]),
         queries |-> s.queries]

\* SESClient.__init__: the instance, or the error that ends construction
SESClient_init(profile_name, region_name, ps) ==
    LET s == create_session(profile_name, ps)
    IN  IF s.out.kind = "raise"
        THEN [out |-> s.out, queries |-> s.queries]
        ELSE [out |-> Return([state |-> "ready",
                              profile_name |-> s.profile_name,
                              region_name |-> region_name,
                              session |-> s.out.value,
                              client |-> [service |-> "ses",
                                          region_name |-> region_name,
                                          session |-> s.out.value]]),
              queries |-> s.queries]

(***************************************************************************)
(* ses_client.py: send_email                                               *)
(***************************************************************************)
\* the events of a trace
Construct(profile_name, region_name) ==
    [ev |-> "construct", profile_name |-> profile_name, region_name |-> region_name]
Call(client, api, params) == [ev |-> "call", client |-> client, api |-> api, params |-> params]
Replied(reply) == [ev |-> "reply", reply |-> reply]
Printed(msg, e) == [ev |-> "print", msg |-> msg, error |-> e]

\* lines 82-83: to_addresses is wrapped whenever it is a str
normalize_to(v) == IF isinstance_str(v) THEN List(<<v.s>>) ELSE v

\* a normalize_optional that forgets to wrap a single string
normalize_optional_nowrap(v) == v

\* a normalize_optional that wraps every str, the empty one too
normalize_optional_wrap_empty(v) == IF isinstance_str(v) THEN List(<<v.s>>) ELSE v

\* lines 84-89: cc, bcc and reply_to are wrapped when truthy and a str
normalize_optional(v) == IF bool(v) /\ isinstance_str(v) THEN List(<<v.s>>) ELSE v

\* a message that sets the Html part whenever body_html is not None
message_html_not_none(subject, body_text, body_html) ==
    [Subject |-> [Data |-> subject],
     Body |-> [k \in {"Text"} \cup (IF body_html # None THEN {"Html"} ELSE {}) |->
                  IF k = "Text" THEN [Data |-> body_text] ELSE [Data |-> body_html]]]

\* lines 92-98: the message, its Html part set only for a truthy body_html
message(subject, body_text, body_html) ==
    [Subject |-> [Data |-> subject],
     Body |-> [k \in {"Text"} \cup (IF bool(body_html) THEN {"Html"} ELSE {}) |->
                  IF k = "Text" THEN [Data |-> body_text] ELSE [Data |-> body_html]]]

\* a destination that always sets CcAddresses
destination_always_cc(to_addresses, cc_addresses, bcc_addresses) ==
    [k \in {"ToAddresses", "CcAddresses"}
           \cup (IF bool(bcc_addresses) THEN {"BccAddresses"} ELSE {}) |->
        CASE k = "ToAddresses" -> to_addresses
          [] k = "CcAddresses" -> cc_addresses
          [] k = "BccAddresses" -> bcc_addresses]

\* lines 101-105: the destination, Cc and Bcc set only when truthy
destination(to_addresses, cc_addresses, bcc_addresses) ==
    [k \in {"ToAddresses"}
           \cup (IF bool(cc_addresses) THEN {"CcAddresses"} ELSE {})
           \cup (IF bool(bcc_addresses) THEN {"BccAddresses"} ELSE {}) |->
        CASE k = "ToAddresses" -> to_addresses
          [] k = "CcAddresses" -> cc_addresses
          [] k = "BccAddresses" -> bcc_addresses]

\* an email_params that sets ReplyToAddresses whenever reply_to is not None
email_params_reply_not_none(a) ==
    LET to_addresses == normalize_to(a.to_addresses)
        cc_addresses == normalize_optional(a.cc_addresses)
        bcc_addresses == normalize_optional(a.bcc_addresses)
        reply_to_addresses == normalize_optional(a.reply_to_addresses)
    IN  [k \in {"Source", "Destination", "Message"}
               \cup (IF reply_to_addresses # None THEN {"ReplyToAddresses"} ELSE {}) |->
            CASE k = "Source" -> a.source
              [] k = "Destination" -> destination(to_addresses, cc_addresses, bcc_addresses)
              [] k = "Message" -> message(a.subject, a.body_text, a.body_html)
              [] k = "ReplyToAddresses" -> reply_to_addresses]

\* lines 81-115: the parameters of the remote call
email_params(a) ==
    LET to_addresses == normalize_to(a.to_addresses)
        cc_addresses == normalize_optional(a.cc_addresses)
        bcc_addresses == normalize_optional(a.bcc_addresses)
        reply_to_addresses == normalize_optional(a.reply_to_addresses)
    IN  [k \in {"Source", "Destination", "Message"}
               \cup (IF bool(reply_to_addresses) THEN {"ReplyToAddresses"} ELSE {}) |->
            CASE k = "Source" -> a.source
              [] k = "Destination" -> destination(to_addresses, cc_addresses, bcc_addresses)
              [] k = "Message" -> message(a.subject, a.body_text, a.body_html)
              [] k = "ReplyToAddresses" -> reply_to_addresses]

\* a remote_call that tries once more after a ClientError
remote_call_retry(self, api, params, label, reply) ==
    LET called == <<Call(self.client, api, params), Replied(reply)>>
    IN  IF reply.kind = "return"
        THEN [out |-> Return(reply.value), trace |-> called]
        ELSE IF reply.error.type = "ClientError"
        THEN [out |-> Raise(reply.error),
              trace |-> called \o called \o <<Printed(label, reply.error)>>]
        ELSE [out |-> Raise(reply.error), trace |-> called]

\* a remote_call that prints a ClientError and returns None instead of raising
remote_call_swallow(self, api, params, label, reply) ==
    LET called == <<Call(self.client, api, params), Replied(reply)>>
    IN  IF reply.kind = "return"
        THEN [out |-> Return(reply.value), trace |-> called]
        ELSE IF reply.error.type = "ClientError"
        THEN [out |-> Return(None),
              trace |-> Append(called, Printed(label, reply.error))]
        ELSE [out |-> Raise(reply.error), trace |-> called]

\* a remote_call that forgets to return the response
remote_call_no_return(self, api, params, label, reply) ==
    LET called == <<Call(self.client, api, params), Replied(reply)>>
    IN  IF reply.kind = "return"
        THEN [out |-> Return(None), trace |-> called]
        ELSE IF reply.error.type = "ClientError"
        THEN [out |-> Raise(reply.error),
              trace |-> Append(called, Printed(label, reply.error))]
        ELSE [out |-> Raise(reply.error), trace |-> called]

\* lines 117-123, and the same try/except of every other operation: one
\* remote call on self.client; its response is returned, a ClientError is
\* printed and re-raised, any other error passes through untouched
remote_call(self, api, params, label, reply) ==
    LET called == <<Call(self.client, api, params), Replied(reply)>>
    IN  IF reply.kind = "return"
        THEN [out |-> Return(reply.value), trace |-> called]
        ELSE IF reply.error.type = "ClientError"
        THEN [out |-> Raise(reply.error),
              trace |-> Append(called, Printed(label, reply.error))]
        ELSE [out |-> Raise(reply.error), trace |-> called]

\* SESClient.send_email
send_email(self, a, reply) ==
    remote_call(self, "send_email", email_params(a), "Error sending email", reply)

\* SESClient.verify_email_identity
verify_email_identity(self, email_address, reply) ==
    remote_call(self, "verify_email_identity", [EmailAddress |-> email_address],
                "Error verifying email identity", reply)

\* a dict.get("Identities") without the default
get_Identities_no_default(response) ==
    IF "Identities" \in DOMAIN response THEN response["Identities"] ELSE None

\* dict.get("Identities", [])
get_Identities(response) ==
    IF "Identities" \in DOMAIN response THEN response["Identities"] ELSE List(<<>>)

\* SESClient.list_verified_email_addresses
list_verified_email_addresses(self, reply) ==
    LET r == remote_call(self, "list_identities", [IdentityType |-> Str("EmailAddress")],
                         "Error listing verified email addresses", reply)
    IN  IF r.out.kind = "return"
        THEN [out |-> Return(get_Identities(r.out.value)), trace |-> r.trace]
        ELSE r

\* SESClient.get_send_quota
get_send_quota(self, reply) ==
    remote_call(self, "get_send_quota", <<>>, "Error getting send quota", reply)

\* SESClient.get_send_statistics
get_send_statistics(self, reply) ==
    remote_call(self, "get_send_statistics", <<>>, "Error getting send statistics", reply)

(***************************************************************************)
(* The remote service and the callers' arguments                           *)
(***************************************************************************)
MaxAddrs == 2

AddressPool == <<"a@x.com", "b@x.com", "c@x.com", "d@x.com">>

\* the collections a caller may pass: [], ["a@x.com"], ["a@x.com", "b@x.com"], ...
AddressLists == {List(SubSeq(AddressPool, 1, n)) : n \in 0..MaxAddrs}

\* to_addresses: a single string (possibly empty) or a collection
ToArgs == {Str(""), Str("a@x.com")} \cup AddressLists

\* cc_addresses, bcc_addresses, reply_to_addresses: the same, or None
OptionalArgs == {None} \cup ToArgs

TextArgs == {Str(""), Str("text")}
HtmlArgs == {None, Str(""), Str("<p>html</p>")}

SendCalls ==
    [entry : {"send_email"},
     source : {Str(""), Str("sender@x.com")},
     to_addresses : ToArgs,
     subject : TextArgs,
     body_text : TextArgs,
     body_html : HtmlArgs,
     cc_addresses : OptionalArgs,
     bcc_addresses : OptionalArgs,
     reply_to_addresses : OptionalArgs]

OtherCalls ==
    [entry : {"verify_email_identity"}, email_address : {Str("a@x.com"), Str("")}]
    \cup [entry : {"list_verified_email_addresses", "get_send_quota", "get_send_statistics"}]

\* an error response of the service (botocore raises it as ClientError) and a
\* failure of the client library short of a response
ClientError(code) == [type |-> "ClientError", msg |-> code]
ErrorReplies ==
    {Raise(ClientError("MessageRejected")),
     Raise(ClientError("Throttling")),
     Raise([type |-> "EndpointConnectionError", msg |-> "Could not connect"])}

SendReplies ==
    {Return([MessageId |-> Str(m)]) : m \in {"m-1", "m-2"}} \cup ErrorReplies
VerifyReplies ==
    {Return([ResponseMetadata |-> Str(r)]) : r \in {"r-1", "r-2"}} \cup ErrorReplies
ListReplies ==
    {Return([Identities |-> l]) : l \in AddressLists}
    \cup {Return([ResponseMetadata |-> Str("r-1")])} \cup ErrorReplies
QuotaReplies ==
    {Return([Max24HourSend |-> n, MaxSendRate |-> 1, SentLast24Hours |-> 0]) : n \in {200, 50000}}
    \cup ErrorReplies
StatisticsReplies ==
    {Return([SendDataPoints |-> p]) : p \in {<<>>, <<[DeliveryAttempts |-> 1, Bounces |-> 0]>>}}
    \cup ErrorReplies

(***************************************************************************)
(* Calls on a Sender                                                       *)
(***************************************************************************)
\* an operation that builds itself a fresh default client on the way
Ran_rebinds(name, r) ==
    /\ op' = name
    /\ ret' = r.out
    /\ trace' = r.trace
    /\ queries' = 0
    /\ sender' = [sender EXCEPT !.client = [service |-> "ses",
                                            region_name |-> None,
                                            session |-> [profile |-> None]]]
    /\ UNCHANGED <<profiles, environ, arg, ctx>>

Ran(name, r) ==
    /\ op' = name
    /\ ret' = r.out
    /\ trace' = r.trace
    /\ queries' = 0
    /\ UNCHANGED <<profiles, environ, arg, sender, ctx>>

SendEmail ==
    /\ arg.entry = "send_email"
    /\ sender.state = "ready"
    /\ \E reply \in SendReplies : Ran("send_email", send_email(sender, arg, reply))

VerifyEmailIdentity ==
    /\ arg.entry = "verify_email_identity"
    /\ sender.state = "ready"
    /\ \E reply \in VerifyReplies :
           Ran("verify_email_identity", verify_email_identity(sender, arg.email_address, reply))

ListVerifiedEmailAddresses ==
    /\ arg.entry = "list_verified_email_addresses"
    /\ sender.state = "ready"
    /\ \E reply \in ListReplies :
           Ran("list_verified_email_addresses", list_verified_email_addresses(sender, reply))

GetSendQuota ==
    /\ arg.entry = "get_send_quota"
    /\ sender.state = "ready"
    /\ \E reply \in QuotaReplies : Ran("get_send_quota", get_send_quota(sender, reply))

GetSendStatistics ==
    /\ arg.entry = "get_send_statistics"
    /\ sender.state = "ready"
    /\ \E reply \in StatisticsReplies :
           Ran("get_send_statistics", get_send_statistics(sender, reply))

\* a Sender built as SESClient(region_name="us-east-1"), and the one call the
\* caller makes on it, with any reply of the remote service
InitSend ==
    /\ profiles = <<>>
    /\ environ = [AWS_PROFILE |-> None, AWS_REGION |-> None]
    /\ arg \in SendCalls \cup OtherCalls
    /\ sender = SESClient_init(None, Str("us-east-1"), profiles).out.value
    /\ op = "none"
    /\ ret = Return(None)
    /\ queries = 0
    /\ trace = <<>>
    /\ ctx = EmptyObj

NextSend ==
    \/ SendEmail
    \/ VerifyEmailIdentity
    \/ ListVerifiedEmailAddresses
    \/ GetSendQuota
    \/ GetSendStatistics

SpecSend == InitSend /\ [][NextSend]_vars

(***************************************************************************)
(* What a call on a Sender did                                             *)
(***************************************************************************)
IsCall(e) == e.ev = "call"
IsReply(e) == e.ev = "reply"
IsPrint(e) == e.ev = "print"
Calls(t) == SelectSeq(t, IsCall)
Replies(t) == SelectSeq(t, IsReply)
Prints(t) == SelectSeq(t, IsPrint)

SenderOps ==
    {"send_email", "verify_email_identity", "list_verified_email_addresses",
     "get_send_quota", "get_send_statistics"}

\* the request a send_email call submitted
Submitted == Calls(trace)[1].params

\* C3: send_email makes exactly one remote send-email call, whether the call
\* succeeds or fails, and every other Sender operation makes at most one
\* remote call.
C3_OneRemoteCallPerSend ==
    /\ op = "send_email" =>
           /\ Len(Calls(trace)) = 1
           /\ Calls(trace)[1].api = "send_email"
    /\ op \in SenderOps => Len(Calls(trace)) <= 1

C3_Witness ==
    /\ op = "send_email"
    /\ ret.kind = "raise"
    /\ ret.error.type = "ClientError"
    /\ Len(Calls(trace)) = 1

\* where each address argument of send_email goes in the request
AddressFields == {"to_addresses", "cc_addresses", "bcc_addresses", "reply_to_addresses"}
OptionalFields == AddressFields \ {"to_addresses"}

HasField(req, f) ==
    CASE f = "to_addresses" -> "ToAddresses" \in DOMAIN req["Destination"]
      [] f = "cc_addresses" -> "CcAddresses" \in DOMAIN req["Destination"]
      [] f = "bcc_addresses" -> "BccAddresses" \in DOMAIN req["Destination"]
      [] f = "reply_to_addresses" -> "ReplyToAddresses" \in DOMAIN req

Field(req, f) ==
    CASE f = "to_addresses" -> req["Destination"]["ToAddresses"]
      [] f = "cc_addresses" -> req["Destination"]["CcAddresses"]
      [] f = "bcc_addresses" -> req["Destination"]["BccAddresses"]
      [] f = "reply_to_addresses" -> req["ReplyToAddresses"]

\* the collection the spec's normalization rule yields for a string or a collection
AsCollection(v) == IF v.tag = "str" THEN [tag |-> "list", l |-> <<v.s>>] ELSE v

\* v names at least one address: a non-empty string or a non-empty collection
NonEmpty(v) == (v.tag = "str" /\ v.s # "") \/ (v.tag = "list" /\ v.l # <<>>)

\* C4 as stated: for each of to, cc, bcc and reply_to, every single string s
\* is placed in the request as [s] and every collection is placed unchanged.
C4_Original ==
    op = "send_email" =>
        \A f \in AddressFields :
            arg[f].tag \in {"str", "list"} =>
                HasField(Submitted, f) /\ Field(Submitted, f) = AsCollection(arg[f])

\* C4 (amended): to is placed as [s] for every single string s and unchanged
\* for every collection; cc, bcc and reply_to are placed as [s] for every
\* non-empty single string s and unchanged for every non-empty collection.
C4_NormalizationOfNonEmpty ==
    op = "send_email" =>
        \A f \in AddressFields :
            (arg[f].tag \in {"str", "list"} /\ (f = "to_addresses" \/ NonEmpty(arg[f]))) =>
                HasField(Submitted, f) /\ Field(Submitted, f) = AsCollection(arg[f])

C4_Witness ==
    /\ op = "send_email"
    /\ arg.to_addresses = Str("a@x.com")
    /\ arg.cc_addresses = Str("a@x.com")
    /\ arg.bcc_addresses = List(<<"a@x.com", "b@x.com">>)
    /\ Field(Submitted, "to_addresses") = List(<<"a@x.com">>)
    /\ Field(Submitted, "cc_addresses") = List(<<"a@x.com">>)
    /\ Field(Submitted, "bcc_addresses") = List(<<"a@x.com", "b@x.com">>)

\* C5: every request send_email submits has a non-empty to collection and
\* non-empty source, subject and body_text strings.
C5_RequestInvariant ==
    op = "send_email" =>
        /\ Submitted["Destination"]["ToAddresses"].tag = "list"
        /\ Submitted["Destination"]["ToAddresses"].l # <<>>
        /\ Submitted["Source"].tag = "str" /\ Submitted["Source"].s # ""
        /\ Submitted["Message"]["Subject"]["Data"].tag = "str"
        /\ Submitted["Message"]["Subject"]["Data"].s # ""
        /\ Submitted["Message"]["Body"]["Text"]["Data"].tag = "str"
        /\ Submitted["Message"]["Body"]["Text"]["Data"].s # ""

\* C6: a send_email call given only source, to, subject and body_text submits
\* a request whose fields are exactly Source, Destination and Message, whose
\* destination holds only ToAddresses and whose body holds only the Text part.
C6_RequiredOnlyRequest ==
    (/\ op = "send_email"
     /\ arg.cc_addresses = None /\ arg.bcc_addresses = None
     /\ arg.reply_to_addresses = None /\ arg.body_html = None) =>
        /\ DOMAIN Submitted = {"Source", "Destination", "Message"}
        /\ DOMAIN Submitted["Destination"] = {"ToAddresses"}
        /\ DOMAIN Submitted["Message"] = {"Subject", "Body"}
        /\ DOMAIN Submitted["Message"]["Body"] = {"Text"}

C6_Witness ==
    /\ op = "send_email"
    /\ arg.cc_addresses = None /\ arg.bcc_addresses = None
    /\ arg.reply_to_addresses = None /\ arg.body_html = None
    /\ arg.to_addresses = Str("a@x.com")
    /\ ret.kind = "return"
    /\ DOMAIN Submitted["Destination"] = {"ToAddresses"}

\* C7 as stated: the body always holds the Text part with body_text, and holds
\* an Html part with body_html if and only if body_html was supplied.
C7_Original ==
    op = "send_email" =>
        LET body == Submitted["Message"]["Body"]
        IN  /\ "Text" \in DOMAIN body /\ body["Text"] = [Data |-> arg.body_text]
            /\ ("Html" \in DOMAIN body) <=> (arg.body_html # None)
            /\ "Html" \in DOMAIN body => body["Html"] = [Data |-> arg.body_html]

\* C7 (amended): the body always holds the Text part with body_text, and holds
\* an Html part with body_html if and only if body_html was supplied and is
\* not the empty string.
C7_HtmlPartIffNonEmpty ==
    op = "send_email" =>
        LET body == Submitted["Message"]["Body"]
        IN  /\ "Text" \in DOMAIN body /\ body["Text"] = [Data |-> arg.body_text]
            /\ ("Html" \in DOMAIN body) <=> (arg.body_html # None /\ arg.body_html # Str(""))
            /\ "Html" \in DOMAIN body => body["Html"] = [Data |-> arg.body_html]

C7_Witness ==
    /\ op = "send_email"
    /\ arg.body_html = Str("<p>html</p>")
    /\ DOMAIN Submitted["Message"]["Body"] = {"Text", "Html"}

\* C8 as stated: to is always present; cc and bcc are present exactly when
\* supplied with at least one address; reply_to is present exactly when it was
\* supplied; a present field holds the normalized collection of its argument.
C8_Original ==
    op = "send_email" =>
        /\ HasField(Submitted, "to_addresses")
        /\ \A f \in {"cc_addresses", "bcc_addresses"} :
               HasField(Submitted, f) <=> NonEmpty(arg[f])
        /\ HasField(Submitted, "reply_to_addresses") <=> (arg.reply_to_addresses # None)
        /\ \A f \in AddressFields :
               HasField(Submitted, f) => Field(Submitted, f) = AsCollection(arg[f])

\* C8 (amended): to is always present; each of cc, bcc and reply_to is present
\* exactly when supplied with at least one address (a non-empty string or a
\* non-empty collection); a present field holds the normalized collection of
\* its argument.
C8_FieldsPresentIffNonEmpty ==
    op = "send_email" =>
        /\ HasField(Submitted, "to_addresses")
        /\ \A f \in OptionalFields : HasField(Submitted, f) <=> NonEmpty(arg[f])
        /\ \A f \in AddressFields :
               HasField(Submitted, f) => Field(Submitted, f) = AsCollection(arg[f])

C8_Witness ==
    /\ op = "send_email"
    /\ arg.cc_addresses = List(<<"a@x.com">>)
    /\ arg.bcc_addresses = None
    /\ arg.reply_to_addresses = Str("a@x.com")
    /\ HasField(Submitted, "cc_addresses")
    /\ ~HasField(Submitted, "bcc_addresses")
    /\ Field(Submitted, "reply_to_addresses") = List(<<"a@x.com">>)

\* C9: an error the remote service raises during send_email,
\* verify_email_identity, list_verified_email_addresses, get_send_quota or
\* get_send_statistics (botocore delivers it as a ClientError) is printed
\* first and then reaches the caller as the very same error; the operation
\* returns nothing and makes no further remote call.
C9_ServiceErrorLoggedAndReraised ==
    (/\ op \in SenderOps
     /\ Len(Replies(trace)) >= 1
     /\ Replies(trace)[1].reply.kind = "raise"
     /\ Replies(trace)[1].reply.error.type = "ClientError") =>
        LET e == Replies(trace)[1].reply.error
        IN  /\ ret = Raise(e)
            /\ Len(trace) = 3
            /\ IsCall(trace[1]) /\ IsReply(trace[2]) /\ IsPrint(trace[3])
            /\ trace[3].error = e

C9_Witness ==
    /\ op = "get_send_quota"
    /\ ret = Raise(ClientError("Throttling"))
    /\ Len(Prints(trace)) = 1

(***************************************************************************)
(* lambda_handler.py                                                       *)
(***************************************************************************)
\* `a or b`
\* an `or` with its operands swapped: the environment's value comes first
or_env_first(a, b) == IF bool(b) THEN b ELSE a
or(a, b) == IF bool(a) THEN a ELSE b

\* an all([...]) that leaves body_text out
all_required_but_body_text(source, to_addresses, subject, body_text) ==
    bool(source) /\ bool(to_addresses) /\ bool(subject)

\* line 52: all([source, to_addresses, subject, body_text])
all_required(source, to_addresses, subject, body_text) ==
    bool(source) /\ bool(to_addresses) /\ bool(subject) /\ bool(body_text)

\* str(e)
str(e) == e.msg

\* json.dumps(...) of a response body: a JSON text, not the dict itself
json_dumps(d) == [json |-> d]

Response(statusCode, body) == [statusCode |-> statusCode, body |-> json_dumps(body)]

MissingParameters ==
    "Missing required parameters. Required: source, to_addresses, subject, body_text"

\* an except branch that reports the error under status 200
error_response_status_200(e) ==
    Response(200, [message |-> [prefix |-> "Error sending email: ", text |-> str(e)]])

\* an except branch that leaves the error's text out of the message
error_response_no_text(e) ==
    Response(500, [message |-> [prefix |-> "Error sending email: ", text |-> ""]])

\* lines 84-91: the except branch, f"Error sending email: {str(e)}"
error_response(e) ==
    Response(500, [message |-> [prefix |-> "Error sending email: ", text |-> str(e)]])

\* a success response that reports no message identifier
success_response_no_id(response) ==
    Response(200, [message |-> "Email sent successfully", messageId |-> None])

\* lines 75-82: the success response, carrying response["MessageId"]
success_response(response) ==
    Response(200, [message |-> "Email sent successfully",
                   messageId |-> response["MessageId"]])

\* handler(event, context): an absent key of the event reads as None
\* (event.get); the result, the Sender it built and what it did
handler(event, env, ps, reply) ==
    LET profile_name == or(event.profile_name, env.AWS_PROFILE)
        region_name == or(event.region_name, env.AWS_REGION)
    IN  IF ~all_required(event.source, event.to_addresses, event.subject, event.body_text)
        THEN [out |-> Return(Response(400, [message |-> MissingParameters])),
              sender |-> NoSender, queries |-> 0, trace |-> <<>>]
        ELSE
        LET built == SESClient_init(profile_name, region_name, ps)
            constructing == <<Construct(profile_name, region_name)>>
        IN  IF built.out.kind = "raise"
            THEN [out |-> Return(error_response(built.out.error)),
                  sender |-> NoSender, queries |-> built.queries, trace |-> constructing]
            ELSE
            LET ses_client == built.out.value
                sent == send_email(ses_client,
                                   [source |-> event.source,
                                    to_addresses |-> event.to_addresses,
                                    subject |-> event.subject,
                                    body_text |-> event.body_text,
                                    body_html |-> event.body_html,
                                    cc_addresses |-> event.cc_addresses,
                                    bcc_addresses |-> event.bcc_addresses,
                                    reply_to_addresses |-> event.reply_to_addresses],
                                   reply)
                did == [sender |-> ses_client, queries |-> built.queries,
                        trace |-> constructing \o sent.trace]
            IN  IF sent.out.kind = "raise"
                THEN [out |-> Return(error_response(sent.out.error))] @@ did
                ELSE IF "MessageId" \notin DOMAIN sent.out.value
                THEN [out |-> Return(error_response([type |-> "KeyError", msg |-> "'MessageId'"]))]
                     @@ did
                ELSE [out |-> Return(success_response(sent.out.value))] @@ did

\* the Profile Sets of the event entry point's environment: [], ["dev"], ["dev", "prod"], ...
HandlerProfileSets == {SubSeq(<<"dev", "prod", "latest", "default">>, 1, n) : n \in 0..MaxProfiles}

\* the events: a key that is absent (or null) is None
Events ==
    [source : {None, Str(""), Str("sender@x.com")},
     to_addresses : {None} \cup ToArgs,
     subject : {None} \cup TextArgs,
     body_text : {None} \cup TextArgs,
     body_html : {None, Str("<p>html</p>")},
     cc_addresses : {None, Str("a@x.com")},
     bcc_addresses : {None},
     reply_to_addresses : {None, List(<<"a@x.com">>)},
     profile_name : {None, Str("latest"), Str("dev"), Str("ghost")},
     region_name : {None, Str("eu-west-1")}]

\* the Lambda runtime invokes handler(event, context)
Handler ==
    /\ arg.entry = "handler"
    /\ \E reply \in SendReplies :
           LET h == handler(arg.event, environ, profiles, reply)
           IN  /\ op' = "handler"
               /\ ret' = h.out
               /\ sender' = h.sender
               /\ queries' = h.queries
               /\ trace' = h.trace
    /\ UNCHANGED <<profiles, environ, arg, ctx>>

InitHandler ==
    /\ profiles \in HandlerProfileSets
    /\ environ \in [AWS_PROFILE : {None, Str("dev")}, AWS_REGION : {None, Str("us-east-1")}]
    /\ arg \in [entry : {"handler"}, event : Events]
    /\ sender = NoSender
    /\ op = "none"
    /\ ret = Return(None)
    /\ queries = 0
    /\ trace = <<>>
    /\ ctx = EmptyObj

NextHandler == Handler

SpecHandler == InitHandler /\ [][NextHandler]_vars

RequiredKeys == {"source", "to_addresses", "subject", "body_text"}

\* a required key is missing from the event or holds an empty value
MissingOrEmpty(v) ==
    v.tag = "none" \/ (v.tag = "str" /\ v.s = "") \/ (v.tag = "list" /\ v.l = <<>>)
MissingRequired(event) == \E k \in RequiredKeys : MissingOrEmpty(event[k])

IsConstruct(e) == e.ev = "construct"

\* C10: the handler returns status 400 with the "Missing required parameters"
\* message whenever source, to_addresses, subject or body_text is missing or
\* empty, and then builds no Sender and makes no remote call, even when the
\* profile could not be bound; it never returns 400 when all four are present
\* and non-empty.
C10_MissingRequiredIs400 ==
    op = "handler" =>
        /\ MissingRequired(arg.event) =>
               /\ ret = Return(Response(400, [message |-> MissingParameters]))
               /\ SelectSeq(trace, IsConstruct) = <<>>
               /\ Calls(trace) = <<>>
               /\ sender = NoSender
        /\ ~MissingRequired(arg.event) => ret.value.statusCode # 400

C10_Witness ==
    /\ op = "handler"
    /\ arg.event.body_text = None
    /\ arg.event.source = Str("sender@x.com")
    /\ arg.event.profile_name = Str("ghost")
    /\ "ghost" \notin Range(profiles)
    /\ ret.value.statusCode = 400
    /\ trace = <<>>

\* C11: when all four required fields are present and the remote send call
\* succeeds, the handler returns status 200 with the message "Email sent
\* successfully" and the messageId the remote service returned for that call.
C11_SuccessIs200WithMessageId ==
    (/\ op = "handler"
     /\ Len(Replies(trace)) = 1
     /\ Replies(trace)[1].reply.kind = "return") =>
        ret = Return([statusCode |-> 200,
                      body |-> [json |-> [message |-> "Email sent successfully",
                                          messageId |-> Replies(trace)[1].reply.value["MessageId"]]]])

C11_Witness ==
    /\ op = "handler"
    /\ ~MissingRequired(arg.event)
    /\ Replies(trace)[1].reply = Return([MessageId |-> Str("m-2")])
    /\ ret.value.statusCode = 200
    /\ ret.value.body.json.messageId = Str("m-2")

\* the text of the error that ends a construction with profile name p
ConstructionErrorText(p, ps) ==
    IF IsLatest(p) /\ ps = <<>> THEN "No AWS profiles found" ELSE p.s

\* C12: the handler never raises: its status code is 200, 400 or 500, and any
\* failure past the required-field check (Sender construction, a remote
\* error) returns status 500 with a message made of "Error sending email"
\* and the text of the underlying error.
C12_FailuresAre500 ==
    op = "handler" =>
        /\ ret.kind = "return"
        /\ ret.value.statusCode \in {200, 400, 500}
        /\ (~MissingRequired(arg.event) /\ Replies(trace) = <<>>) =>
               ret.value = [statusCode |-> 500,
                            body |-> [json |-> [message |->
                                [prefix |-> "Error sending email: ",
                                 text |-> ConstructionErrorText(trace[1].profile_name, profiles)]]]]
        /\ (Replies(trace) # <<>> /\ Replies(trace)[1].reply.kind = "raise") =>
               ret.value = [statusCode |-> 500,
                            body |-> [json |-> [message |->
                                [prefix |-> "Error sending email: ",
                                 text |-> Replies(trace)[1].reply.error.msg]]]]

C12_Witness ==
    /\ op = "handler"
    /\ arg.event.profile_name = Str("latest")
    /\ profiles = <<>>
    /\ ~MissingRequired(arg.event)
    /\ ret.value.statusCode = 500
    /\ ret.value.body.json.message.text = "No AWS profiles found"

IsBind(e) == e.ev = "bind"
Binds(t) == SelectSeq(t, IsBind)

\* C15: validate_profile called with "latest" in any letter case returns true
\* exactly when the Profile Set is non-empty, and never attempts to bind a
\* credential context.
C15_ValidateLatestFromEnumeration ==
    (op = "validate_profile" /\ IsLatest(arg.profile_name)) =>
        /\ ret = Return(profiles # <<>>)
        /\ Binds(trace) = <<>>

C15_Witness ==
    /\ op = "validate_profile"
    /\ arg.profile_name = Str("Latest")
    /\ Len(profiles) = 2
    /\ ret = Return(TRUE)
    /\ trace = <<>>

\* C16: validate_profile called with any other name makes exactly one attempt
\* to bind that exact name and returns true when the binding succeeds, false
\* when the credential system reports profile-not-found, and raises every
\* other binding error to the caller.
C16_ValidateNameByBinding ==
    (op = "validate_profile" /\ ~IsLatest(arg.profile_name)) =>
        /\ Len(Binds(trace)) = 1
        /\ Binds(trace)[1].profile_name = arg.profile_name
        /\ LET b == Binds(trace)[1].out
           IN  CASE b.kind = "return" -> ret = Return(TRUE)
                 [] b.kind = "raise" /\ b.error.type = "ProfileNotFound" -> ret = Return(FALSE)
                 [] OTHER -> ret = b

C16_Witness ==
    /\ op = "validate_profile"
    /\ arg.profile_name = Str("DEV")
    /\ "dev" \in Range(profiles)
    /\ Binds(trace)[1].out.kind = "raise"
    /\ Binds(trace)[1].out.error.type = "InvalidConfigError"
    /\ ret.kind = "raise"

\* C17: list_verified_email_addresses queries the remote service with the
\* identity type EmailAddress and returns exactly the identities the service
\* returned, in the same order; when the response reports none it returns an
\* empty sequence and raises nothing.
C17_ListReturnsIdentities ==
    (/\ op = "list_verified_email_addresses"
     /\ Replies(trace) # <<>>
     /\ Replies(trace)[1].reply.kind = "return") =>
        LET response == Replies(trace)[1].reply.value
        IN  /\ Calls(trace)[1].api = "list_identities"
            /\ Calls(trace)[1].params = [IdentityType |-> [tag |-> "str", s |-> "EmailAddress"]]
            /\ ret.kind = "return"
            /\ IF "Identities" \in DOMAIN response
               THEN ret.value = response["Identities"]
               ELSE ret.value = [tag |-> "list", l |-> <<>>]

C17_Witness ==
    /\ op = "list_verified_email_addresses"
    /\ Replies(trace)[1].reply.kind = "return"
    /\ "Identities" \notin DOMAIN Replies(trace)[1].reply.value
    /\ ret = Return(List(<<>>))

PassthroughOps ==
    {"send_email", "verify_email_identity", "get_send_quota", "get_send_statistics"}

\* C18: get_send_quota, get_send_statistics, verify_email_identity and a
\* successful send_email return the very response the remote service
\* returned, with nothing added, removed or changed.
C18_ResponsePassthrough ==
    (/\ op \in PassthroughOps
     /\ Replies(trace) # <<>>
     /\ Replies(trace)[1].reply.kind = "return") =>
        ret = [kind |-> "return", value |-> Replies(trace)[1].reply.value]

C18_Witness ==
    /\ op = "get_send_statistics"
    /\ ret.kind = "return"
    /\ ret.value = [SendDataPoints |-> <<[DeliveryAttempts |-> 1, Bounces |-> 0]>>]

(***************************************************************************)
(* The handler's profile and region overrides: a complete event, with the  *)
(* profile_name and region_name keys absent, empty or set, under           *)
(* environments whose AWS_PROFILE and AWS_REGION are unset, empty or set.  *)
(***************************************************************************)
OverrideEvents ==
    [source : {Str("sender@x.com")},
     to_addresses : {Str("a@x.com"), List(<<"a@x.com", "b@x.com">>)},
     subject : {Str("Hello")},
     body_text : {Str("text")},
     body_html : {None},
     cc_addresses : {None},
     bcc_addresses : {None},
     reply_to_addresses : {None},
     profile_name : {None, Str(""), Str("latest"), Str("dev"), Str("ghost")},
     region_name : {None, Str(""), Str("eu-west-1")}]

InitOverrides ==
    /\ profiles \in HandlerProfileSets
    /\ environ \in [AWS_PROFILE : {None, Str(""), Str("dev")},
                    AWS_REGION : {None, Str(""), Str("us-east-1")}]
    /\ arg \in [entry : {"handler"}, event : OverrideEvents]
    /\ sender = NoSender
    /\ op = "none"
    /\ ret = Return(None)
    /\ queries = 0
    /\ trace = <<>>
    /\ ctx = EmptyObj

SpecOverrides == InitOverrides /\ [][NextHandler]_vars

Constructs(t) == SelectSeq(t, IsConstruct)

\* the value the claim as written expects: the event's when the key is there
EventElseEnvironment(event_value, env_value) ==
    IF event_value.tag # "none" THEN event_value ELSE env_value

\* the value the handler passes: the event's when it is not empty
NonEmptyEventElseEnvironment(event_value, env_value) ==
    IF event_value.tag = "none" \/ event_value = [tag |-> "str", s |-> ""]
    THEN env_value ELSE event_value

\* C19 as written: the handler constructs its Sender with the event's profile
\* and region whenever the event supplies them, and with the environment's
\* AWS_PROFILE and AWS_REGION otherwise (none when the environment has none).
C19_Original ==
    (op = "handler" /\ Constructs(trace) # <<>>) =>
        /\ Constructs(trace)[1].profile_name =
               EventElseEnvironment(arg.event.profile_name, environ.AWS_PROFILE)
        /\ Constructs(trace)[1].region_name =
               EventElseEnvironment(arg.event.region_name, environ.AWS_REGION)

\* C19: the handler constructs exactly one Sender, with the event's profile
\* and region when the event supplies non-empty ones, and with the
\* environment's AWS_PROFILE and AWS_REGION otherwise: none when the
\* environment does not define the variable; a non-empty event value always
\* wins over the environment's.
C19_NonEmptyEventValueWins ==
    (op = "handler" /\ ~MissingRequired(arg.event)) =>
        /\ Len(Constructs(trace)) = 1
        /\ Constructs(trace)[1].profile_name =
               NonEmptyEventElseEnvironment(arg.event.profile_name, environ.AWS_PROFILE)
        /\ Constructs(trace)[1].region_name =
               NonEmptyEventElseEnvironment(arg.event.region_name, environ.AWS_REGION)
        /\ sender.state = "ready" =>
               sender.region_name =
                   NonEmptyEventElseEnvironment(arg.event.region_name, environ.AWS_REGION)

C19_Witness ==
    /\ op = "handler"
    /\ arg.event.profile_name = Str("latest")
    /\ arg.event.region_name = None
    /\ environ = [AWS_PROFILE |-> Str("dev"), AWS_REGION |-> Str("us-east-1")]
    /\ Constructs(trace) = <<Construct(Str("latest"), Str("us-east-1"))>>
    /\ sender.state = "ready"
    /\ sender.profile_name = Str("prod")

(***************************************************************************)
(* The life of one Sender: it is constructed from a profile and a region,  *)
(* then its caller makes call after call on it while the Profile Set of    *)
(* the environment changes underneath.                                     *)
(***************************************************************************)
Constructions ==
    [entry : {"SESClient"},
     profile_name : ProfileArgs,
     region_name : {None, Str("us-east-1")}]

ClientCalls ==
    [entry : {"send_email"},
     source : {Str("sender@x.com")},
     to_addresses : {Str("a@x.com")},
     subject : {Str("Hello")},
     body_text : {Str("text")},
     body_html : {None},
     cc_addresses : {None},
     bcc_addresses : {None},
     reply_to_addresses : {None}]
    \cup [entry : {"verify_email_identity"}, email_address : {Str("a@x.com")}]
    \cup [entry : {"list_verified_email_addresses", "get_send_quota", "get_send_statistics"}]

\* SESClient(profile_name=..., region_name=...)
NewSESClient ==
    /\ arg.entry = "SESClient"
    /\ op = "none"
    /\ LET built == SESClient_init(arg.profile_name, arg.region_name, profiles)
       IN  /\ sender' = IF built.out.kind = "return" THEN built.out.value ELSE NoSender
           /\ ret' = IF built.out.kind = "return" THEN Return(None) ELSE built.out
           /\ queries' = built.queries
    /\ op' = "SESClient"
    /\ trace' = <<Construct(arg.profile_name, arg.region_name)>>
    /\ UNCHANGED <<profiles, environ, arg, ctx>>

\* the holder of the instance gets its next call ready
NextCall ==
    /\ sender.state = "ready"
    /\ \E call \in ClientCalls : arg' = call
    /\ UNCHANGED <<profiles, environ, sender, op, ret, queries, trace, ctx>>

\* the credential files of the environment are rewritten
ProfilesChange ==
    /\ sender.state = "ready"
    /\ \E ps \in HandlerProfileSets : ps # profiles /\ profiles' = ps
    /\ op' = "profiles_changed"
    /\ ret' = Return(None)
    /\ trace' = <<>>
    /\ queries' = 0
    /\ UNCHANGED <<environ, arg, sender, ctx>>

InitClient ==
    /\ profiles \in HandlerProfileSets
    /\ environ = [AWS_PROFILE |-> None, AWS_REGION |-> None]
    /\ arg \in Constructions
    /\ sender = NoSender
    /\ op = "none"
    /\ ret = Return(None)
    /\ queries = 0
    /\ trace = <<>>
    /\ ctx = EmptyObj

NextClient ==
    \/ NewSESClient
    \/ NextCall
    \/ ProfilesChange
    \/ SendEmail
    \/ VerifyEmailIdentity
    \/ ListVerifiedEmailAddresses
    \/ GetSendQuota
    \/ GetSendStatistics

SpecClient == InitClient /\ [][NextClient]_vars

\* the sentinel with an empty Profile Set, or a name the Profile Set lacks
Unbindable(p, ps) ==
    \/ IsLatest(p) /\ ps = <<>>
    \/ /\ p.tag = "str"
       /\ p.s # ""
       /\ ~IsLatest(p)
       /\ \A i \in 1..Len(ps) : ps[i] # p.s

ProfileErrors == {"ValueError", "ProfileNotFound"}

\* C13: constructing a Sender with "latest" while the Profile Set is empty,
\* or with a name that cannot be bound, raises at construction, produces no
\* instance and makes no remote call; without an instance there is never a
\* remote call; and no operation on a constructed instance raises a
\* profile-configuration error, whatever the Profile Set has become.
C13_BindingFailsAtConstruction ==
    /\ (op = "SESClient" /\ arg.entry = "SESClient" /\ Unbindable(arg.profile_name, profiles)) =>
           /\ ret.kind = "raise"
           /\ ret.error.type \in ProfileErrors
           /\ sender = NoSender
           /\ Calls(trace) = <<>>
    /\ sender = NoSender => (Calls(trace) = <<>> /\ op \notin SenderOps)
    /\ (op \in SenderOps /\ ret.kind = "raise") => ret.error.type \notin ProfileErrors

C13_Witness ==
    /\ op = "SESClient"
    /\ arg.profile_name = Str("DEV")
    /\ profiles = <<"dev", "prod">>
    /\ ret = Raise([type |-> "ProfileNotFound", msg |-> "DEV"])
    /\ sender = NoSender

\* C14: the profile, region, session and service client of a constructed
\* Sender never change, whatever calls are made on it and however they end,
\* and every remote call of the instance goes through that one client.
C14_ContextNeverChanges ==
    /\ [][sender.state = "ready" => sender' = sender]_vars
    /\ [](sender.state = "ready" =>
              /\ sender.client = [service |-> "ses",
                                  region_name |-> sender.region_name,
                                  session |-> sender.session]
              /\ \A i \in 1..Len(Calls(trace)) : Calls(trace)[i].client = sender.client)

C14_Witness ==
    /\ op = "get_send_quota"
    /\ ret.kind = "raise"
    /\ Len(Calls(trace)) = 1
    /\ sender.profile_name = Str("prod")
    /\ sender.region_name = Str("us-east-1")
    /\ sender.session = [profile |-> Str("prod")]
    /\ profiles = <<>>

(***************************************************************************)
(* cli.py: the group callback and the subcommands.  One run of the command *)
(* line is the callback, then the subcommand named on it; a run ends with  *)
(* an exit status.  What click.echo prints is kept as the format string    *)
(* and the value put into it.                                              *)
(***************************************************************************)
Exit(code) == [kind |-> "exit", code |-> code]
Line(text, value) == [text |-> text, value |-> value]
Echo(line, err) == [ev |-> "echo", line |-> line, err |-> err]

\* ctx.obj.get(k)
obj_get(obj, k) == IF k \in DOMAIN obj THEN obj[k] ELSE None

\* a group callback that reports a rejected profile and carries on
cli_no_exit(profile, region, ps, fault) ==
    LET stored == [out |-> Return(None),
                   obj |-> [profile |-> profile, region |-> region]]
    IN  IF ~bool(profile)
        THEN stored @@ [trace |-> <<>>, queries |-> 0]
        ELSE LET v == validate_profile(profile, ps, fault)
             IN  IF v.out.kind = "raise"
                 THEN [out |-> v.out, obj |-> EmptyObj, trace |-> v.trace, queries |-> v.queries]
                 ELSE IF v.out.value
                 THEN stored @@ [trace |-> v.trace, queries |-> v.queries]
                 ELSE stored @@ [trace |-> Append(v.trace,
                                     Echo(Line("Profile '{profile}' not found", profile.s), TRUE)),
                                 queries |-> v.queries]

\* lines 20-32: the group callback; obj is what it leaves in ctx.obj
cli(profile, region, ps, fault) ==
    LET stored == [out |-> Return(None),
                   obj |-> [profile |-> profile, region |-> region]]
    IN  IF ~bool(profile)
        THEN stored @@ [trace |-> <<>>, queries |-> 0]
        ELSE LET v == validate_profile(profile, ps, fault)
             IN  IF v.out.kind = "raise"
                 THEN [out |-> v.out, obj |-> EmptyObj, trace |-> v.trace, queries |-> v.queries]
                 ELSE IF v.out.value
                 THEN stored @@ [trace |-> v.trace, queries |-> v.queries]
                 ELSE LET line ==
                              IF lower(profile.s) = "latest" /\ ~bool(get_available_profiles(ps))
                              THEN Line("No AWS profiles found when trying to use 'latest'", "")
                              ELSE Line("Profile '{profile}' not found", profile.s)
                      IN  [out |-> Exit(1), obj |-> EmptyObj,
                           trace |-> Append(v.trace, Echo(line, TRUE)),
                           queries |-> IF lower(profile.s) = "latest"
                                       THEN v.queries + 1 ELSE v.queries]

\* an except branch that reports the error and still exits with status 0
command_failed_exit0(label, built, done, e) ==
    [out |-> Exit(0), sender |-> built, trace |-> Append(done, Echo(Line(label, str(e)), TRUE))]

\* the except branch of every subcommand: click.echo(f"...: {e}", err=True); sys.exit(1)
command_failed(label, built, done, e) ==
    [out |-> Exit(1), sender |-> built, trace |-> Append(done, Echo(Line(label, str(e)), TRUE))]

\* the end of a try block that raised nothing: the lines are on the output
\* stream and the command returns, which click turns into exit status 0
command_done(built, done, lines) ==
    [out |-> Exit(0), sender |-> built,
     trace |-> done \o [i \in 1..Len(lines) |-> Echo(lines[i], FALSE)]]

\* lines 57-75
cli_send(obj, a, ps, reply) ==
    LET profile == obj_get(obj, "profile")
        region == obj_get(obj, "region")
        label == "Error sending email: "
        built == SESClient_init(profile, region, ps)
        constructing == <<Construct(profile, region)>>
    IN  IF built.out.kind = "raise"
        THEN command_failed(label, NoSender, constructing, built.out.error)
        ELSE
        LET ses_client == built.out.value
            r == send_email(ses_client,
                            [source |-> a.from_email,
                             to_addresses |-> List(a.to),
                             subject |-> a.subject,
                             body_text |-> a.body_text,
                             body_html |-> a.body_html,
                             cc_addresses |-> IF a.cc # <<>> THEN List(a.cc) ELSE None,
                             bcc_addresses |-> IF a.bcc # <<>> THEN List(a.bcc) ELSE None,
                             reply_to_addresses |->
                                 IF a.reply_to # <<>> THEN List(a.reply_to) ELSE None],
                            reply)
            done == constructing \o r.trace
        IN  IF r.out.kind = "raise"
            THEN command_failed(label, ses_client, done, r.out.error)
            ELSE IF "MessageId" \notin DOMAIN r.out.value
            THEN command_failed(label, ses_client, done,
                                [type |-> "KeyError", msg |-> "'MessageId'"])
            ELSE command_done(ses_client, done,
                              <<Line("Email sent! Message ID: ", r.out.value["MessageId"].s)>>)

\* lines 82-95
cli_verify(obj, email, ps, reply) ==
    LET profile == obj_get(obj, "profile")
        region == obj_get(obj, "region")
        label == "Error verifying email: "
        built == SESClient_init(profile, region, ps)
        constructing == <<Construct(profile, region)>>
    IN  IF built.out.kind = "raise"
        THEN command_failed(label, NoSender, constructing, built.out.error)
        ELSE
        LET ses_client == built.out.value
            r == verify_email_identity(ses_client, email, reply)
            done == constructing \o r.trace
        IN  IF r.out.kind = "raise"
            THEN command_failed(label, ses_client, done, r.out.error)
            ELSE command_done(ses_client, done,
                              <<Line("Verification email sent to {email}.", email.s)>>)

\* lines 101-116
cli_list_verified(obj, ps, reply) ==
    LET profile == obj_get(obj, "profile")
        region == obj_get(obj, "region")
        label == "Error listing verified emails: "
        built == SESClient_init(profile, region, ps)
        constructing == <<Construct(profile, region)>>
    IN  IF built.out.kind = "raise"
        THEN command_failed(label, NoSender, constructing, built.out.error)
        ELSE
        LET ses_client == built.out.value
            r == list_verified_email_addresses(ses_client, reply)
            done == constructing \o r.trace
        IN  IF r.out.kind = "raise"
            THEN command_failed(label, ses_client, done, r.out.error)
            ELSE LET emails == r.out.value
                 IN  IF bool(emails)
                     THEN command_done(ses_client, done,
                              <<Line("Verified email addresses:", "")>>
                              \o [i \in 1..Len(emails.l) |-> Line("  - ", emails.l[i])])
                     ELSE command_done(ses_client, done,
                              <<Line("No verified email addresses found.", "")>>)

QuotaLines == <<[key |-> "Max24HourSend", text |-> "  Max 24 Hour Send: "],
                [key |-> "MaxSendRate", text |-> "  Max Send Rate: "],
                [key |-> "SentLast24Hours", text |-> "  Sent Last 24 Hours: "]>>

\* lines 122-135
cli_quota(obj, ps, reply) ==
    LET profile == obj_get(obj, "profile")
        region == obj_get(obj, "region")
        label == "Error getting quota: "
        built == SESClient_init(profile, region, ps)
        constructing == <<Construct(profile, region)>>
    IN  IF built.out.kind = "raise"
        THEN command_failed(label, NoSender, constructing, built.out.error)
        ELSE
        LET ses_client == built.out.value
            r == get_send_quota(ses_client, reply)
            done == constructing \o r.trace
        IN  IF r.out.kind = "raise"
            THEN command_failed(label, ses_client, done, r.out.error)
            ELSE
            LET quota == r.out.value
                absent == {i \in 1..Len(QuotaLines) : QuotaLines[i].key \notin DOMAIN quota}
                shown == IF absent = {} THEN Len(QuotaLines)
                         ELSE (CHOOSE i \in absent : \A j \in absent : i <= j) - 1
                lines == <<Line("SES Sending Quota:", "")>>
                         \o [i \in 1..shown |-> Line(QuotaLines[i].text, quota[QuotaLines[i].key])]
            IN  IF absent = {}
                THEN command_done(ses_client, done, lines)
                ELSE command_failed(label, ses_client,
                                    done \o [i \in 1..Len(lines) |-> Echo(lines[i], FALSE)],
                                    [type |-> "KeyError", msg |-> QuotaLines[shown + 1].key])

\* point.get(k, default)
point_get(point, k, default) == IF k \in DOMAIN point THEN point[k] ELSE default

\* lines 151-160: the five lines printed for one data point
point_lines(point) ==
    <<Line("  Timestamp: ", point_get(point, "Timestamp", "Unknown")),
      Line("    Delivery Attempts: ", point_get(point, "DeliveryAttempts", 0)),
      Line("    Bounces: ", point_get(point, "Bounces", 0)),
      Line("    Complaints: ", point_get(point, "Complaints", 0)),
      Line("    Rejects: ", point_get(point, "Rejects", 0))>>

RECURSIVE points_lines(_)
points_lines(points) ==
    IF points = <<>> THEN <<>> ELSE point_lines(Head(points)) \o points_lines(Tail(points))

\* lines 141-166
cli_stats(obj, ps, reply) ==
    LET profile == obj_get(obj, "profile")
        region == obj_get(obj, "region")
        label == "Error getting statistics: "
        built == SESClient_init(profile, region, ps)
        constructing == <<Construct(profile, region)>>
    IN  IF built.out.kind = "raise"
        THEN command_failed(label, NoSender, constructing, built.out.error)
        ELSE
        LET ses_client == built.out.value
            r == get_send_statistics(ses_client, reply)
            done == constructing \o r.trace
        IN  IF r.out.kind = "raise"
            THEN command_failed(label, ses_client, done, r.out.error)
            ELSE LET stats_data == r.out.value
                 IN  IF "SendDataPoints" \in DOMAIN stats_data
                        /\ stats_data["SendDataPoints"] # <<>>
                     THEN command_done(ses_client, done,
                              <<Line("SES Sending Statistics:", "")>>
                              \o points_lines(stats_data["SendDataPoints"]))
                     ELSE command_done(ses_client, done,
                              <<Line("No sending statistics available.", "")>>)

\* lines 170-181: no Sender here, and no try either
cli_list_profiles(ps) ==
    LET available == get_available_profiles(ps)
    IN  IF bool(available)
        THEN command_done(NoSender, <<>>,
                 <<Line("Available AWS profiles:", "")>>
                 \o [i \in 1..Len(available.l) |->
                        IF Str(available.l[i]) = get_latest_profile(ps)
                        THEN Line("  - {profile} (latest)", available.l[i])
                        ELSE Line("  - {profile}", available.l[i])])
        ELSE command_done(NoSender, <<>>, <<Line("No AWS profiles found.", "")>>)

\* the command lines: the shared options, then a subcommand and its own
\* arguments; an option given several times arrives as a tuple
Options ==
    [profile : {None, Str(""), Str("latest"), Str("LATEST"), Str("dev"), Str("DEV"), Str("ghost")},
     region : {None, Str("eu-west-1")}]

Subcommands ==
    [command : {"send"},
     from_email : {Str("sender@x.com")},
     to : {<<"a@x.com">>, <<"a@x.com", "b@x.com">>},
     cc : {<<>>, <<"c@x.com">>},
     bcc : {<<>>},
     reply_to : {<<>>, <<"a@x.com">>},
     subject : {Str("Hello")},
     body_text : {Str("text")},
     body_html : {None, Str("<p>html</p>")}]
    \cup [command : {"verify"}, email : {Str("a@x.com")}]
    \cup [command : {"list-verified", "quota", "stats", "list-profiles"}]

CommandLines == {[entry |-> "cli"] @@ o @@ c : o \in Options, c \in Subcommands}

\* main(): click runs the group callback on the shared options
Cli ==
    /\ arg.entry = "cli"
    /\ op = "none"
    /\ \E fault \in BindFaults :
           LET c == cli(arg.profile, arg.region, profiles, fault)
           IN  /\ ret' = c.out
               /\ ctx' = c.obj
               /\ trace' = c.trace
               /\ queries' = c.queries
    /\ op' = "cli"
    /\ UNCHANGED <<profiles, environ, arg, sender>>

\* the credential files are rewritten between the callback and the subcommand
ProfilesChangeUnderCli ==
    /\ arg.entry = "cli"
    /\ op = "cli"
    /\ ret = Return(None)
    /\ \E ps \in HandlerProfileSets : ps # profiles /\ profiles' = ps
    /\ UNCHANGED <<environ, arg, sender, op, ret, queries, trace, ctx>>

\* click invokes the subcommand once the callback has returned
Invoked(command) ==
    /\ arg.entry = "cli"
    /\ op = "cli"
    /\ ret = Return(None)
    /\ arg.command = command

Completed(command, r) ==
    /\ op' = command
    /\ ret' = r.out
    /\ sender' = r.sender
    /\ trace' = trace \o r.trace
    /\ UNCHANGED <<profiles, environ, arg, queries, ctx>>

Send ==
    /\ Invoked("send")
    /\ \E reply \in SendReplies : Completed("send", cli_send(ctx, arg, profiles, reply))

Verify ==
    /\ Invoked("verify")
    /\ \E reply \in VerifyReplies :
           Completed("verify", cli_verify(ctx, arg.email, profiles, reply))

ListVerified ==
    /\ Invoked("list-verified")
    /\ \E reply \in ListReplies :
           Completed("list-verified", cli_list_verified(ctx, profiles, reply))

Quota ==
    /\ Invoked("quota")
    /\ \E reply \in QuotaReplies : Completed("quota", cli_quota(ctx, profiles, reply))

Stats ==
    /\ Invoked("stats")
    /\ \E reply \in StatisticsReplies : Completed("stats", cli_stats(ctx, profiles, reply))

ListProfiles ==
    /\ Invoked("list-profiles")
    /\ Completed("list-profiles", cli_list_profiles(profiles))

InitCli ==
    /\ profiles \in HandlerProfileSets
    /\ environ = [AWS_PROFILE |-> None, AWS_REGION |-> None]
    /\ arg \in CommandLines
    /\ sender = NoSender
    /\ op = "none"
    /\ ret = Return(None)
    /\ queries = 0
    /\ trace = <<>>
    /\ ctx = EmptyObj

NextCli ==
    \/ Cli
    \/ ProfilesChangeUnderCli
    \/ Send
    \/ Verify
    \/ ListVerified
    \/ Quota
    \/ Stats
    \/ ListProfiles

SpecCli == InitCli /\ [][NextCli]_vars

IsEcho(e) == e.ev = "echo"
Echoes(t) == SelectSeq(t, IsEcho)

SenderCommands == {"send", "verify", "list-verified", "quota", "stats"}

\* construction and the one remote call of the command both went through
CommandSucceeded ==
    /\ sender.state = "ready"
    /\ Replies(trace) # <<>>
    /\ Replies(trace)[1].reply.kind = "return"

\* the text of the error that construction or the remote call raised
RaisedText ==
    IF sender.state = "ready"
    THEN Replies(trace)[1].reply.error.msg
    ELSE IF IsLatest(ctx["profile"]) THEN "No AWS profiles found" ELSE ctx["profile"].s

\* C20: send, verify, list-verified, quota and stats exit with status 0 after
\* printing their summary on the output stream when Sender construction and
\* the operation succeed; when either raises they print the error on the
\* error stream, last, and exit with a non-zero status; an error never ends
\* in exit status 0.
C20_ExitStatusTellsFailure ==
    op \in SenderCommands =>
        /\ ret.kind = "exit"
        /\ CommandSucceeded =>
               /\ ret.code = 0
               /\ Echoes(trace) # <<>>
               /\ \A i \in 1..Len(Echoes(trace)) : ~Echoes(trace)[i].err
        /\ ~CommandSucceeded =>
               /\ ret.code # 0
               /\ IsEcho(trace[Len(trace)])
               /\ trace[Len(trace)].err
               /\ trace[Len(trace)].line.value = RaisedText
               /\ Len(Echoes(trace)) = 1

C20_Witness ==
    /\ op = "quota"
    /\ arg.profile = Str("dev")
    /\ profiles = <<>>
    /\ sender = NoSender
    /\ Calls(trace) = <<>>
    /\ ret = Exit(1)
    /\ trace[Len(trace)] = Echo(Line("Error getting quota: ", "dev"), TRUE)

\* an argument that names no address: the empty string or the empty collection
EmptyValue(v) == (v.tag = "str" /\ v.s = "") \/ (v.tag = "list" /\ v.l = <<>>)

\* C25: in every request send_email submits, a cc, bcc or reply_to field that
\* is present is a non-empty collection, and an argument that is the empty
\* string or the empty collection leaves its field out, as an absent one does.
C25_NoEmptyOptionalField ==
    op = "send_email" =>
        \A f \in OptionalFields :
            /\ HasField(Submitted, f) =>
                   /\ Field(Submitted, f).tag = "list"
                   /\ Field(Submitted, f).l # <<>>
            /\ (arg[f].tag = "none" \/ EmptyValue(arg[f])) => ~HasField(Submitted, f)

C25_Witness ==
    /\ op = "send_email"
    /\ arg.cc_addresses = Str("")
    /\ arg.bcc_addresses = List(<<>>)
    /\ arg.reply_to_addresses = List(<<"a@x.com", "b@x.com">>)
    /\ ~HasField(Submitted, "cc_addresses")
    /\ ~HasField(Submitted, "bcc_addresses")
    /\ Field(Submitted, "reply_to_addresses") = List(<<"a@x.com", "b@x.com">>)

\* the send call of this invocation returned a response with a MessageId
SendSucceeded ==
    /\ Replies(trace) # <<>>
    /\ Replies(trace)[1].reply.kind = "return"
    /\ "MessageId" \in DOMAIN Replies(trace)[1].reply.value

\* C24: one invocation of the handler constructs at most one Sender and makes
\* at most one remote call, a send; it returns status 200 only if exactly one
\* send call was made and returned a message identifier; and it never
\* returns 400 or 500 after a send call that returned a message identifier.
C24_StatusMatchesTheOneSend ==
    op = "handler" =>
        /\ Len(Constructs(trace)) <= 1
        /\ Len(Calls(trace)) <= 1
        /\ \A i \in 1..Len(Calls(trace)) : Calls(trace)[i].api = "send_email"
        /\ ret.kind = "return"
        /\ ret.value.statusCode = 200 =>
               /\ Len(Calls(trace)) = 1
               /\ Len(Replies(trace)) = 1
               /\ SendSucceeded
        /\ SendSucceeded => ret.value.statusCode \notin {400, 500}

C24_Witness ==
    /\ op = "handler"
    /\ ret.kind = "return"
    /\ ret.value.statusCode = 500
    /\ Len(Constructs(trace)) = 1
    /\ Len(Calls(trace)) = 1
    /\ Replies(trace)[1].reply = Raise(ClientError("Throttling"))

\* a --profile that names nothing the Profile Set has: the sentinel with an
\* empty set, or a name that is not in it
Rejected(profile, ps) ==
    /\ profile.tag = "str"
    /\ profile.s # ""
    /\ IF IsLatest(profile) THEN ps = <<>> ELSE \A i \in 1..Len(ps) : ps[i] # profile.s

AllCommands == SenderCommands \cup {"list-profiles"}

\* the group callback ended the run
EndedByCallback == op = "cli" /\ ret # [kind |-> "return", value |-> [tag |-> "none"]]

\* C22: a --profile that validate_profile rejects makes the group callback
\* print one error on the error stream and exit with status 1; the run ends
\* there, before any subcommand (list-profiles too), with no Sender
\* constructed and no remote call made.  When validation passes or no profile
\* is given the subcommand gets exactly the profile and region of the
\* command line.
C22_RejectedProfileEndsRun ==
    /\ [][(op = "none" /\ arg.entry = "cli" /\ op' = "cli" /\ ret'.kind # "raise") =>
             IF Rejected(arg.profile, profiles)
             THEN /\ ret' = [kind |-> "exit", code |-> 1]
                  /\ Len(Echoes(trace')) = 1
                  /\ Echoes(trace')[1].err
                  /\ trace'[Len(trace')] = Echoes(trace')[1]
             ELSE /\ ret' = [kind |-> "return", value |-> [tag |-> "none"]]
                  /\ Echoes(trace') = <<>>
                  /\ ctx' = [profile |-> arg.profile, region |-> arg.region]]_vars
    /\ [][~EndedByCallback]_vars
    /\ [](EndedByCallback =>
              /\ sender = NoSender
              /\ Constructs(trace) = <<>>
              /\ Calls(trace) = <<>>)
    /\ [](op \in AllCommands =>
              /\ ctx = [profile |-> arg.profile, region |-> arg.region]
              /\ op \in SenderCommands =>
                     Constructs(trace) = <<[ev |-> "construct",
                                            profile_name |-> arg.profile,
                                            region_name |-> arg.region]>>)

C22_Witness ==
    /\ op = "cli"
    /\ arg.command = "list-profiles"
    /\ arg.profile = Str("ghost")
    /\ arg.region = Str("eu-west-1")
    /\ profiles = <<"dev", "prod">>
    /\ ret = Exit(1)
    /\ trace[Len(trace)] = Echo(Line("Profile '{profile}' not found", "ghost"), TRUE)
    /\ ctx = EmptyObj

\* what resolve_profile_name makes of the --profile of this run, with the
\* Profile Set as it is when the subcommand constructs its Sender
Resolved == resolve_profile_name(arg.profile, profiles).out

\* the credential store can bind the resolved name
Bindable(name) == name.tag = "none" \/ \E i \in 1..Len(profiles) : profiles[i] = name.s

\* construction fails exactly when resolve_profile_name fails or the name it
\* returns cannot be bound, and otherwise binds the name it returns
BindsAsResolved ==
    IF Resolved.kind = "return" /\ Bindable(Resolved.value)
    THEN /\ sender.state = "ready"
         /\ sender.session = [profile |-> Resolved.value]
    ELSE /\ sender = NoSender
         /\ Calls(trace) = <<>>
         /\ ret = [kind |-> "exit", code |-> 1]

\* C23 as written: construction binds to the name resolve_profile_name
\* returns for the same name and Profile Set, records that name as the
\* instance's profile_name, and fails exactly when resolve_profile_name fails
\* or the name cannot be bound.
C23_Original ==
    op \in SenderCommands =>
        /\ BindsAsResolved
        /\ sender.state = "ready" => sender.profile_name = Resolved.value

\* C23: construction binds to the name resolve_profile_name returns for the
\* same name and the Profile Set of construction time, and fails exactly when
\* resolve_profile_name fails or that name cannot be bound; the instance's
\* profile_name is that resolved name for every non-empty requested name,
\* and the requested value itself (none or the empty string) otherwise.
C23_ConstructionFollowsResolver ==
    op \in SenderCommands =>
        /\ BindsAsResolved
        /\ sender.state = "ready" =>
               sender.profile_name =
                   IF arg.profile.tag = "str" /\ arg.profile.s # ""
                   THEN Resolved.value
                   ELSE arg.profile

C23_Witness ==
    /\ op = "stats"
    /\ arg.profile = Str("LATEST")
    /\ profiles = <<>>
    /\ Resolved.kind = "raise"
    /\ sender = NoSender
    /\ ret = Exit(1)
    /\ trace[Len(trace)] = Echo(Line("Error getting statistics: ", "No AWS profiles found"), TRUE)

(***************************************************************************)
(* Two Senders in one process, each constructed from its own profile and   *)
(* region and then called again and again, their steps interleaved in any  *)
(* order.  Here sender, op, ret and trace hold one entry per instance.     *)
(***************************************************************************)
Instances == {1, 2}

\* the call each instance is given to make
operate(self, call, reply) ==
    CASE call.entry = "send_email" -> send_email(self, call, reply)
      [] call.entry = "verify_email_identity" ->
             verify_email_identity(self, call.email_address, reply)
      [] call.entry = "list_verified_email_addresses" ->
             list_verified_email_addresses(self, reply)
      [] call.entry = "get_send_quota" -> get_send_quota(self, reply)
      [] call.entry = "get_send_statistics" -> get_send_statistics(self, reply)

\* what the remote service may answer to it
RepliesTo(entry) ==
    CASE entry = "send_email" -> SendReplies
      [] entry = "verify_email_identity" -> VerifyReplies
      [] entry = "list_verified_email_addresses" -> ListReplies
      [] entry = "get_send_quota" -> QuotaReplies
      [] entry = "get_send_statistics" -> StatisticsReplies

\* attributes kept on the class: a construction rebinds every live instance
assigned_on_class(senders, i, instance) ==
    [j \in DOMAIN senders |->
        IF j = i THEN instance
        ELSE IF senders[j].state = "ready"
        THEN [senders[j] EXCEPT !.profile_name = instance.profile_name,
                                !.session = instance.session,
                                !.client = instance.client]
        ELSE senders[j]]

\* lines 25-28 and 47: profile_name, region_name, session and client are
\* attributes of self, the instance under construction
assigned_on_self(senders, i, instance) == [senders EXCEPT ![i] = instance]

TwoConstructions ==
    [profile_name : {None, Str("latest"), Str("dev")},
     region_name : {Str("us-east-1"), Str("eu-west-1")}]

\* instance i is constructed
NewSESClientOf(i) ==
    /\ arg.entry = "two_senders"
    /\ op[i] = "none"
    /\ LET built == SESClient_init(arg.ctor[i].profile_name, arg.ctor[i].region_name, profiles)
       IN  /\ sender' = IF built.out.kind = "return"
                        THEN assigned_on_self(sender, i, built.out.value)
                        ELSE sender
           /\ ret' = [ret EXCEPT ![i] = IF built.out.kind = "return"
                                        THEN Return(None) ELSE built.out]
           /\ queries' = built.queries
    /\ op' = [op EXCEPT ![i] = "SESClient"]
    /\ trace' = [trace EXCEPT ![i] =
                    <<Construct(arg.ctor[i].profile_name, arg.ctor[i].region_name)>>]
    /\ UNCHANGED <<profiles, environ, arg, ctx>>

\* instance i makes its call
OperationOf(i) ==
    /\ arg.entry = "two_senders"
    /\ sender[i].state = "ready"
    /\ \E reply \in RepliesTo(arg.call[i].entry) :
           LET r == operate(sender[i], arg.call[i], reply)
           IN  /\ op' = [op EXCEPT ![i] = arg.call[i].entry]
               /\ ret' = [ret EXCEPT ![i] = r.out]
               /\ trace' = [trace EXCEPT ![i] = r.trace]
    /\ queries' = 0
    /\ UNCHANGED <<profiles, environ, arg, sender, ctx>>

InitTwoSenders ==
    /\ profiles \in HandlerProfileSets
    /\ environ = [AWS_PROFILE |-> None, AWS_REGION |-> None]
    /\ arg \in [entry : {"two_senders"},
                ctor : [Instances -> TwoConstructions],
                call : [Instances -> ClientCalls]]
    /\ sender = [i \in Instances |-> NoSender]
    /\ op = [i \in Instances |-> "none"]
    /\ ret = [i \in Instances |-> Return(None)]
    /\ queries = 0
    /\ trace = [i \in Instances |-> <<>>]
    /\ ctx = EmptyObj

NextTwoSenders ==
    \/ NewSESClientOf(1)
    \/ NewSESClientOf(2)
    \/ OperationOf(1)
    \/ OperationOf(2)

SpecTwoSenders == InitTwoSenders /\ [][NextTwoSenders]_vars

\* what constructing instance i alone, with nothing else running, gives
Alone(i) == SESClient_init(arg.ctor[i].profile_name, arg.ctor[i].region_name, profiles).out

\* instance i is and does what it would when running alone
AsWhenAlone(i) ==
    /\ op[i] # "none" =>
           IF Alone(i).kind = "return"
           THEN sender[i] = Alone(i).value
           ELSE sender[i] = NoSender /\ ret[i] = Alone(i)
    /\ op[i] \in SenderOps =>
           /\ trace[i] = operate(Alone(i).value, arg.call[i], Replies(trace[i])[1].reply).trace
           /\ \A n \in 1..Len(Calls(trace[i])) :
                  Calls(trace[i])[n].client = Alone(i).value.client

\* a step leaves everything of instance j as it was
Untouched(j) ==
    /\ sender'[j] = sender[j]
    /\ op'[j] = op[j]
    /\ ret'[j] = ret[j]
    /\ trace'[j] = trace[j]

\* C21: two Sender instances share no mutable state: whatever the order in
\* which their constructions and calls are interleaved, every step touches
\* one instance only, and each instance's profile, region, session and
\* client, and the requests it submits, are those of the same construction
\* and the same calls made alone.
C21_InstancesShareNothing ==
    /\ [](\A i \in Instances : AsWhenAlone(i))
    /\ [][\E i \in Instances : \A j \in Instances \ {i} : Untouched(j)]_vars

C21_Witness ==
    /\ op[1] = "send_email"
    /\ op[2] = "SESClient"
    /\ queries = 1
    /\ arg.ctor[1] = [profile_name |-> Str("dev"), region_name |-> Str("us-east-1")]
    /\ arg.ctor[2] = [profile_name |-> Str("latest"), region_name |-> Str("eu-west-1")]
    /\ profiles = <<"dev", "prod">>
    /\ sender[1].profile_name = Str("dev")
    /\ sender[2].profile_name = Str("prod")
    /\ Calls(trace[1])[1].client = [service |-> "ses", region_name |-> Str("us-east-1"),
                                    session |-> [profile |-> Str("dev")]]

====
